---- MODULE Spec2Model ----
(***************************************************************************)
(* A model of spoof.py: the SpoofedData object, its source array og_data,  *)
(* its list new_data of variant arrays and the transformation methods      *)
(* that rewrite the variants.                                              *)
(*                                                                         *)
(* Arrays are numpy arrays of dtype uint8 and shape [H, W, 4]; an array is *)
(* modelled as a function  row -> column -> channel -> value  with 0-based *)
(* indices, as in the code.  Arrays live in a heap, and og_data and the    *)
(* entries of new_data are addresses into it, so that an in-place write    *)
(* through one name is seen through every other name of the same array.    *)
(***************************************************************************)
EXTENDS Integers, Sequences, FiniteSets, TLC

VARIABLES
    image,       \* the pixels of the PIL image opened in __init__ (self.image)
    og_data,     \* address of the array np.asarray(self.image)
    iterations,  \* self.iterations
    new_data,    \* self.new_data: index 0..iterations-1 -> address
    heap,        \* address -> array
    result,      \* the array returned by the latest combine_arr call
    draws,       \* the method called last and the values random returned to it
    err,         \* "none", or the exception that ended the run
    calls        \* number of method calls made so far

vars == <<image, og_data, iterations, new_data, heap, result, draws, err, calls>>

(***************************************************************************)
(* Class constants.                                                        *)
(***************************************************************************)
VOL_ADJUST_RANGE == 50
RANDOM_NOISE_CHANCE == 10
AMP_FREQ_RANGE == 80
AMP_TIME_RANGE == 80
MAX_AMP_FREQ == 5
MAX_AMP_TIME == 5

(***************************************************************************)
(* Bounds of the model.                                                    *)
(***************************************************************************)
MaxCalls == 2

\* The values of iters the object is constructed with.
IterationChoices == {1, 2}

\* The shapes [H, W] of the source images.
Shapes == {<<1, 1>>, <<2, 4>>, <<2, 5>>, <<4, 4>>, <<10, 1>>, <<1, 10>>}

\* The shapes for which every pattern of empty and non-empty columns is a
\* source image.
AllPatternShapes == {<<2, 4>>}

\* Of the values random.randrange can return, the ones the model draws.
\* Values outside the range of a draw are kept here on purpose: randrange
\* is what excludes them.
DeltaSample == {-51, -50, 49, 50}
AmplitudeSample == {-81, -80, 79, 80}
LocSample == {0, 8, 9, 10}
NoiseValueSample == {254, 255}
NoiseDrawSample == {0, 1, 10}
ShiftSample == {0, 1, 4, 8, 12}

(***************************************************************************)
(* Python and numpy primitives.                                            *)
(***************************************************************************)

\* list(range(start, stop, step)) for step > 0, as a set; random.randrange
\* draws from it and raises ValueError when it is empty.
randrange(start, stop, step) ==
    {n \in start..(stop - 1) : (n - start) % step = 0}

\* int(a / b) for a >= 0, b > 0.
int_div(a, b) == a \div b

\* arr.shape[0], arr.shape[1], arr.shape[2]
shape0(arr) == Cardinality(DOMAIN arr)
shape1(arr) == Cardinality(DOMAIN arr[0])
shape2(arr) == Cardinality(DOMAIN arr[0][0])

\* np.clip left out: the sum is stored as it is.
np_clip_none(v, lo, hi) == v

\* np.clip on one value.
np_clip(v, lo, hi) == IF v < lo THEN lo ELSE IF v > hi THEN hi ELSE v

\* Storing an integer into a uint8 cell keeps its low 8 bits.
astype_uint8(v) == v % 256

\* A Python sequence index: negative indices count from the end.
py_index(i, n) == IF i < 0 THEN i + n ELSE i

\* [a, b, c, d] as a 0-based array.
list4(a, b, c, d) ==
    [ch \in 0..3 |-> IF ch = 0 THEN a ELSE IF ch = 1 THEN b ELSE IF ch = 2 THEN c ELSE d]

\* np.full((h, w, 4), pixel)
np_full(h, w, pixel) == [x \in 0..(h - 1) |-> [y \in 0..(w - 1) |-> pixel]]

\* arr.ravel(): the elements in C order.
ravel(arr) ==
    LET w == shape1(arr)
        c == shape2(arr)
    IN  [i \in 0..(shape0(arr) * w * c - 1) |-> arr[i \div (w * c)][(i \div c) % w][i % c]]

\* flat.reshape(h, w, c)
reshape(flat, h, w, c) ==
    [x \in 0..(h - 1) |-> [y \in 0..(w - 1) |-> [ch \in 0..(c - 1) |->
        flat[(x * w + y) * c + ch]]]]

\* np.roll(arr, shift, axis=1): every row rolled along the time axis.
np_roll_axis1(arr, shift) ==
    [x \in DOMAIN arr |-> [y \in DOMAIN arr[x] |-> arr[x][(y - shift) % shape1(arr)]]]

\* np.roll(arr, shift) with no axis: the array is flattened, rolled and
\* given its shape back.
np_roll(arr, shift) ==
    LET flat == ravel(arr)
        n == shape0(arr) * shape1(arr) * shape2(arr)
    IN  reshape([i \in 0..(n - 1) |-> flat[(i - shift) % n]],
                shape0(arr), shape1(arr), shape2(arr))

\* The array itself appended in place of a copy of it.
np_copy_alias(src, fresh) == src

\* np.copy(arr) returns a new array: the address of the copy is the fresh
\* one, never the address of arr.
np_copy(src, fresh) == fresh

\* The smallest address not in use.
fresh_addr(h) == CHOOSE a \in 0..Cardinality(DOMAIN h) : a \notin DOMAIN h

(***************************************************************************)
(* Source images.                                                          *)
(***************************************************************************)
\* The pixel at row x, column y of a column of the given kind: "E" is an
\* empty column (every value 255), "A" is dark and opaque, "B" is bright
\* and half transparent. Two non-empty columns never hold the same pixels.
KindPixel(kind, x, y) ==
    IF kind = "E" THEN list4(255, 255, 255, 255)
    ELSE IF kind = "A" THEN list4(10 + x + 20 * y, 10 + x + 20 * y, 10 + x + 20 * y, 255)
    ELSE list4(240 - x - 2 * y, 240 - x - 2 * y, 240 - x - 2 * y, 128)

PatternImage(h, w, pattern) ==
    [x \in 0..(h - 1) |-> [y \in 0..(w - 1) |-> KindPixel(pattern[y], x, y)]]

\* The column patterns of the source images of shape [h, w].
Patterns(h, w) ==
    {[y \in 0..(w - 1) |-> "E"],
     [y \in 0..(w - 1) |-> "A"],
     [y \in 0..(w - 1) |-> IF y = w - 1 THEN "E" ELSE IF y % 2 = 0 THEN "A" ELSE "B"]}
    \cup
    (IF <<h, w>> \in AllPatternShapes THEN [0..(w - 1) -> {"E", "A"}] ELSE {})

Images == UNION {{PatternImage(s[1], s[2], p) : p \in Patterns(s[1], s[2])} : s \in Shapes}

(***************************************************************************)
(* __init__                                                                *)
(***************************************************************************)
Init ==
    /\ image \in Images
    /\ og_data = 0
    /\ iterations \in IterationChoices
    /\ new_data = [img \in 0..(iterations - 1) |-> np_copy(og_data, img + 1)]
    /\ heap = [a \in {og_data} \cup {new_data[img] : img \in 0..(iterations - 1)} |-> image]
    /\ result = <<>>
    /\ draws = [op |-> "init"]
    /\ err = "none"
    /\ calls = 0

\* og_data.shape, which every method reads the dimensions from.
H == shape0(heap[og_data])
W == shape1(heap[og_data])
C == shape2(heap[og_data])

Imgs == 0..(iterations - 1)

\* A method can be called while no exception has ended the run.
CanCall == err = "none" /\ calls < MaxCalls

(***************************************************************************)
(* adjust_volume                                                           *)
(***************************************************************************)
\* Deltas on all four channels.
vol_pixel_rgba(delta) == list4(delta, delta, delta, delta)

\* The row of deltas the array vol is filled with.
vol_pixel(delta) == list4(delta, delta, delta, 0)

\* The row loop stopping one row early: the last row keeps its values.
adjust_volume_arr_short(arr, delta) ==
    [x \in DOMAIN arr |-> [y \in DOMAIN arr[x] |-> [ch \in DOMAIN arr[x][y] |->
        IF x = shape0(arr) - 1 THEN arr[x][y][ch]
        ELSE astype_uint8(np_clip(arr[x][y][ch] + vol_pixel(delta)[ch], 0, 255))]]]

\* The bounded sum of arr and vol, row by row, stored back into arr.
adjust_volume_arr(arr, delta) ==
    LET vol == np_full(H, W, vol_pixel(delta))
    IN  [x \in DOMAIN arr |-> [y \in DOMAIN arr[x] |-> [ch \in DOMAIN arr[x][y] |->
            astype_uint8(np_clip(arr[x][y][ch] + vol[x][y][ch], 0, 255))]]]

RECURSIVE adjust_volume_loop(_, _, _)
adjust_volume_loop(h, img, delta) ==
    IF img = iterations THEN h
    ELSE adjust_volume_loop(
            [h EXCEPT ![new_data[img]] = adjust_volume_arr(h[new_data[img]], delta[img])],
            img + 1, delta)

adjust_volume ==
    /\ CanCall
    /\ \E delta \in [Imgs -> randrange(-VOL_ADJUST_RANGE, VOL_ADJUST_RANGE, 1) \cap DeltaSample] :
        /\ heap' = adjust_volume_loop(heap, 0, delta)
        /\ draws' = [op |-> "adjust_volume", delta |-> delta]
    /\ calls' = calls + 1
    /\ UNCHANGED <<image, og_data, iterations, new_data, result, err>>

(***************************************************************************)
(* fill_empty_borders                                                      *)
(***************************************************************************)
\* data[:, y]
column(data, y) == [x \in DOMAIN data |-> data[x][y]]

\* data[:, y] = col, written row by row from row x on.
RECURSIVE set_column_from(_, _, _, _)
set_column_from(data, y, col, x) ==
    IF x = shape0(data) THEN data
    ELSE set_column_from([data EXCEPT ![x][y] = col[x]], y, col, x + 1)

\* data[:, y] = col
set_column(data, y, col) == set_column_from(data, y, col, 0)

\* np.all(data[:, y] == empty), empty being an array filled with 255 that
\* broadcasts against the column; y may be -1, the last column.
column_is_empty(data, y) ==
    LET yy == py_index(y, shape1(data))
    IN  \A x \in DOMAIN data : \A ch \in DOMAIN data[x][yy] : data[x][yy][ch] = 255

\* The while loop of lines 178-179: the column test is made before the
\* test of not_empty >= 0, so the loop ends at -1 on an all-empty array.
RECURSIVE scan_left(_, _)
scan_left(data, not_empty) ==
    IF column_is_empty(data, not_empty) /\ not_empty >= 0
    THEN scan_left(data, not_empty - 1)
    ELSE not_empty

\* The while loop of lines 185-187. filled is a view of column src of data,
\* so each assignment copies what column src holds at that moment.
RECURSIVE fill_right(_, _, _)
fill_right(data, src, not_empty) ==
    IF not_empty < W - 1
    THEN fill_right(set_column(data, not_empty, column(data, src)), src, not_empty + 1)
    ELSE data

\* Lines 175-187: the check and fill of the right border.
fill_right_border(data) ==
    IF column_is_empty(data, W - 1)
    THEN LET not_empty == scan_left(data, W - 1)
             start == IF not_empty > 0 THEN not_empty - 1 ELSE not_empty
         IN  IF not_empty >= 0 THEN fill_right(data, start, start) ELSE data
    ELSE data

\* The while loop of lines 192-193.
RECURSIVE scan_right(_, _)
scan_right(data, not_empty) ==
    IF column_is_empty(data, not_empty) /\ not_empty < W - 1
    THEN scan_right(data, not_empty + 1)
    ELSE not_empty

\* The while loop of lines 199-201, filled again a view of column src.
RECURSIVE fill_left(_, _, _)
fill_left(data, src, not_empty) ==
    IF not_empty >= 0
    THEN fill_left(set_column(data, not_empty, column(data, src)), src, not_empty - 1)
    ELSE data

\* Lines 189-201: the check and fill of the left border.
fill_left_border(data) ==
    IF column_is_empty(data, 0)
    THEN LET not_empty == scan_right(data, 0)
             start == IF not_empty < W - 1 THEN not_empty + 1 ELSE not_empty
         IN  IF not_empty <= W - 1 THEN fill_left(data, start, start) ELSE data
    ELSE data

\* The array data holds when fill_empty_borders returns; the left border is
\* checked on the array the right fill left behind.
fill_empty_borders(data) == fill_left_border(fill_right_border(data))

(***************************************************************************)
(* time_shift                                                              *)
(***************************************************************************)
\* One iteration of the loop, on the pair of the heap and new_data.
\* fill_empty_borders writes into the variant's array in place; np.roll
\* returns a new array, to which new_data[img] is rebound. The old array is
\* then unreferenced unless another name holds it, and the new array takes
\* its address in that case; it takes a fresh address otherwise.
time_shift_step(st, img, shift) ==
    LET a == st.new_data[img]
        h1 == [st.heap EXCEPT ![a] = fill_empty_borders(st.heap[a])]
        rolled == np_roll(h1[a], shift)
        shared == a = og_data \/ \E j \in Imgs : j # img /\ st.new_data[j] = a
        b == IF shared THEN fresh_addr(h1) ELSE a
    IN  [heap |-> IF shared THEN h1 @@ (b :> rolled) ELSE [h1 EXCEPT ![a] = rolled],
         new_data |-> [st.new_data EXCEPT ![img] = b]]

RECURSIVE time_shift_loop(_, _, _)
time_shift_loop(st, img, shift) ==
    IF img = iterations THEN st
    ELSE time_shift_loop(time_shift_step(st, img, shift[img]), img + 1, shift)

time_shift ==
    /\ CanCall
    /\ \E shift \in [Imgs -> randrange(0, W, 4) \cap ShiftSample] :
        LET st == time_shift_loop([heap |-> heap, new_data |-> new_data], 0, shift)
        IN  /\ heap' = st.heap
            /\ new_data' = st.new_data
            /\ draws' = [op |-> "time_shift", shift |-> shift]
    /\ calls' = calls + 1
    /\ UNCHANGED <<image, og_data, iterations, result, err>>

(***************************************************************************)
(* random_noise                                                            *)
(***************************************************************************)
\* The pixels the sampled draws may hit; every other pixel draws a miss.
NoisePixels == {<<0, 0>>, <<H - 1, W - 1>>}

\* What the draws at one pixel can lead to: -1, the pixel is kept (the
\* first draw is no multiple of RANDOM_NOISE_CHANCE), or the value z of the
\* second draw.
noise_outcomes ==
    LET first == randrange(1, H * W * C, 1) \cap NoiseDrawSample
    IN  (IF \E d \in first : d % RANDOM_NOISE_CHANCE # 0 THEN {-1} ELSE {})
        \cup
        (IF \E d \in first : d % RANDOM_NOISE_CHANCE = 0
         THEN randrange(0, 255, 1) \cap NoiseValueSample ELSE {})

\* The loops over x and y for one variant: noise maps a pixel to its outcome.
random_noise_arr(arr, noise) ==
    [x \in DOMAIN arr |-> [y \in DOMAIN arr[x] |->
        IF <<x, y>> \in DOMAIN noise /\ noise[<<x, y>>] >= 0
        THEN list4(noise[<<x, y>>], noise[<<x, y>>], noise[<<x, y>>], 255)
        ELSE arr[x][y]]]

RECURSIVE random_noise_loop(_, _, _)
random_noise_loop(h, img, noise) ==
    IF img = iterations THEN h
    ELSE random_noise_loop(
            [h EXCEPT ![new_data[img]] = random_noise_arr(h[new_data[img]], noise[img])],
            img + 1, noise)

random_noise ==
    /\ CanCall
    /\ \E noise \in [Imgs -> [NoisePixels -> noise_outcomes]] :
        /\ heap' = random_noise_loop(heap, 0, noise)
        /\ draws' = [op |-> "random_noise", noise |-> noise]
    /\ calls' = calls + 1
    /\ UNCHANGED <<image, og_data, iterations, new_data, result, err>>

(***************************************************************************)
(* change_amp, amp_freq, amp_time                                          *)
(***************************************************************************)
\* change_amp(arr, amplitude), from channel z on. The value is the pair of
\* the exception raised ("none" when it returns) and arr as it is left.
\* arr[z] raises IndexError past the end of arr. "if arr[z] + amplitude >
\* 255" takes the truth value of the comparison, which numpy refuses with
\* ValueError when arr[z] is an array of more than one element (NumPy 2
\* raises OverflowError one step earlier, on the sum, when amplitude < 0:
\* an exception before any write either way).
RECURSIVE change_amp_from(_, _, _)
change_amp_from(arr, amplitude, z) ==
    IF z = 3 THEN [err |-> "none", arr |-> arr]
    ELSE IF z \notin DOMAIN arr THEN [err |-> "IndexError", arr |-> arr]
    ELSE IF Cardinality(DOMAIN arr[z]) # 1 THEN [err |-> "ValueError", arr |-> arr]
    ELSE LET v == arr[z][0]
             w == IF v + amplitude > 255 THEN 255
                  ELSE IF v + amplitude < 0 THEN 0
                  ELSE astype_uint8(v + amplitude)
         IN  change_amp_from([arr EXCEPT ![z] = [arr[z] EXCEPT ![0] = w]], amplitude, z + 1)

change_amp(arr, amplitude) == change_amp_from(arr, amplitude, 0)

\* The inner loop of amp_freq and amp_time, from index i on:
\*     for i in range(n): arr[i] = self.change_amp(arr[i], amplitude)
\* arr[i] is row i of the 3-dimensional array arr.
RECURSIVE amp_inner(_, _, _, _)
amp_inner(arr, amplitude, i, n) ==
    IF i = n THEN [err |-> "none", arr |-> arr]
    ELSE IF i \notin DOMAIN arr THEN [err |-> "IndexError", arr |-> arr]
    ELSE LET r == change_amp(arr[i], amplitude)
             arr1 == [arr EXCEPT ![i] = r.arr]
         IN  IF r.err # "none" THEN [err |-> r.err, arr |-> arr1]
             ELSE amp_inner(arr1, amplitude, i + 1, n)

\* The outer loop, for the band indices from  at  to  stop - 1 : the band
\* index is not used by the body.
RECURSIVE amp_outer(_, _, _, _, _)
amp_outer(arr, amplitude, at, stop, n) ==
    IF at >= stop THEN [err |-> "none", arr |-> arr]
    ELSE LET r == amp_inner(arr, amplitude, 0, n)
         IN  IF r.err # "none" THEN r
             ELSE amp_outer(r.arr, amplitude, at + 1, stop, n)

\* The three draws of one variant, for an axis of the given length.
band_draws(axis, fraction, range) ==
    UNION {{[bands |-> b, amplitude |-> a, loc |-> l] :
                a \in randrange(-range, range, 1) \cap AmplitudeSample,
                l \in randrange(0, axis - b, 1) \cap LocSample} :
           b \in randrange(0, int_div(axis, fraction), 1)}

\* The loop over the variants: d[img] holds the draws of variant img and n
\* is the length of the inner loop. The value is the heap, the exception
\* and the number of variants whose draws were made.
RECURSIVE amp_loop(_, _, _, _)
amp_loop(h, img, d, n) ==
    IF img = iterations THEN [heap |-> h, err |-> "none", drawn |-> img]
    ELSE LET r == amp_outer(h[new_data[img]], d[img].amplitude,
                            d[img].loc, d[img].loc + d[img].bands, n)
             h1 == [h EXCEPT ![new_data[img]] = r.arr]
         IN  IF r.err # "none" THEN [heap |-> h1, err |-> r.err, drawn |-> img + 1]
             ELSE amp_loop(h1, img + 1, d, n)

\* The body shared by amp_freq and amp_time.
amp_call(name, axis, fraction, range, n) ==
    /\ CanCall
    /\ IF randrange(0, int_div(axis, fraction), 1) = {}
       THEN \* random.randrange raises ValueError on the first draw
            /\ err' = "ValueError"
            /\ draws' = [op |-> name, d |-> <<>>]
            /\ heap' = heap
       ELSE \E d \in [Imgs -> band_draws(axis, fraction, range)] :
            LET r == amp_loop(heap, 0, d, n)
            IN  /\ err' = r.err
                /\ draws' = [op |-> name, d |-> [img \in 0..(r.drawn - 1) |-> d[img]]]
                /\ heap' = r.heap
    /\ calls' = calls + 1
    /\ UNCHANGED <<image, og_data, iterations, new_data, result>>

amp_freq == amp_call("amp_freq", H, MAX_AMP_FREQ, AMP_FREQ_RANGE, W)

amp_time == amp_call("amp_time", W, MAX_AMP_TIME, AMP_TIME_RANGE, H)

(***************************************************************************)
(* combine_arr                                                             *)
(***************************************************************************)
\* arr1[x] / 2 + arr2[x]: the second array not halved.
twice_half_sum_unhalved(a, b) == a + 2 * b

\* arr1[x] / 2 + arr2[x] / 2 for one cell, times two: the halves and their
\* sum are exact in binary64.
twice_half_sum(a, b) == a + b

\* Storing a non-negative float into a uint8 cell drops its fraction.
float_to_uint8(twice) == astype_uint8(twice \div 2)

\* combine_arr(arr1, arr2): a copy of og_data whose rows 0..len(arr1)-1 are
\* overwritten with the averages.
combine_arr_result(arr1, arr2) ==
    [x \in DOMAIN heap[og_data] |->
        IF x < shape0(arr1)
        THEN [y \in DOMAIN arr1[x] |-> [ch \in DOMAIN arr1[x][y] |->
                float_to_uint8(twice_half_sum(arr1[x][y][ch], arr2[x][y][ch]))]]
        ELSE heap[og_data][x]]

\* The arrays of the source's shape a variant is combined with.
BackgroundSample == {0, 255}
Backgrounds == {np_full(H, W, list4(v, v, v, v)) : v \in BackgroundSample}

\* The arguments of a call, as background_noise makes it: variant img and
\* a background array.
combine_args(h, img, bg) == <<h[new_data[img]], bg>>

combine_arr ==
    /\ CanCall
    /\ \E img \in Imgs, bg \in Backgrounds :
        LET args == combine_args(heap, img, bg)
        IN  /\ result' = combine_arr_result(args[1], args[2])
            /\ draws' = [op |-> "combine_arr", img |-> img, bg |-> bg]
    /\ calls' = calls + 1
    /\ UNCHANGED <<image, og_data, iterations, new_data, heap, err>>

Next ==
    \/ adjust_volume
    \/ time_shift
    \/ random_noise
    \/ amp_freq
    \/ amp_time
    \/ combine_arr

Spec == Init /\ [][Next]_vars

(***************************************************************************)
(* Notions the properties are stated with.                                 *)
(***************************************************************************)
\* The array variant img names in a heap.
variant(h, nd, img) == h[nd[img]]

Rows == 0..(H - 1)
Cols == 0..(W - 1)

\* Every value of column y is 255.
EmptyColumn(arr, y) == \A x \in Rows : \A ch \in 0..3 : arr[x][y][ch] = 255

NonEmptyColumns(arr) == {y \in Cols : ~EmptyColumn(arr, y)}

Highest(S) == CHOOSE y \in S : \A z \in S : z <= y
Lowest(S) == CHOOSE y \in S : \A z \in S : y <= z

\* v + d kept within [0, 255].
Bounded(v, d) == IF v + d > 255 THEN 255 ELSE IF v + d < 0 THEN 0 ELSE v + d

InRange(arr) ==
    \A x \in DOMAIN arr : \A y \in DOMAIN arr[x] : \A ch \in DOMAIN arr[x][y] :
        arr[x][y][ch] \in 0..255

(***************************************************************************)
(* C1 (border-fill idempotence): for every variant array A,                *)
(* fill_empty_borders(fill_empty_borders(A)) equals fill_empty_borders(A)  *)
(* element for element.                                                    *)
(***************************************************************************)
C1_FillIdempotent ==
    \A img \in Imgs :
        LET once == fill_empty_borders(variant(heap, new_data, img))
        IN  fill_empty_borders(once) = once

(***************************************************************************)
(* C2 (border fill copies the nearest non-empty column): when the          *)
(* rightmost column of a variant array is empty and some column is not,    *)
(* fill_empty_borders leaves the nearest non-empty column k unchanged and  *)
(* makes every column k+1..W-1 equal to the original column k; when the    *)
(* leftmost column is empty, every column 0..k-1 becomes a copy of the     *)
(* nearest non-empty column k, which is unchanged.                         *)
(***************************************************************************)
C2_FillCopiesNearest ==
    \A img \in Imgs :
        LET arr == variant(heap, new_data, img)
            out == fill_empty_borders(arr)
            some == NonEmptyColumns(arr)
        IN  /\ (EmptyColumn(arr, W - 1) /\ some # {}) =>
                    LET k == Highest(some)
                    IN  \A y \in k..(W - 1) : column(out, y) = column(arr, k)
            /\ (EmptyColumn(arr, 0) /\ some # {}) =>
                    LET k == Lowest(some)
                    IN  \A y \in 0..k : column(out, y) = column(arr, k)

(***************************************************************************)
(* C3 (clipping invariant): after every call every channel value of every  *)
(* array, and of the array combine_arr returned, is in [0, 255], and no    *)
(* value wrapped around: a call that adds a non-negative amount lowers no  *)
(* R, G or B value and a call that adds a non-positive amount raises none. *)
(***************************************************************************)
C3_Clipping ==
    [][/\ \A a \in DOMAIN heap' : InRange(heap'[a])
       /\ InRange(result')
       /\ draws'.op = "adjust_volume" =>
            \A img \in Imgs : \A x \in Rows : \A y \in Cols : \A ch \in 0..2 :
                LET v == variant(heap, new_data, img)[x][y][ch]
                    w == variant(heap', new_data', img)[x][y][ch]
                IN  /\ draws'.delta[img] >= 0 => w >= v
                    /\ draws'.delta[img] <= 0 => w <= v
       /\ draws'.op \in {"amp_freq", "amp_time"} =>
            \A img \in DOMAIN draws'.d : \A x \in Rows : \A y \in Cols : \A ch \in 0..2 :
                LET v == variant(heap, new_data, img)[x][y][ch]
                    w == variant(heap', new_data', img)[x][y][ch]
                IN  /\ draws'.d[img].amplitude >= 0 => w >= v
                    /\ draws'.d[img].amplitude <= 0 => w <= v
      ]_vars

\* The first call was adjust_volume and a value of variant 0 that the sum
\* would have taken past 255 or below 0 sits at 255 or 0.
C3_Witness ==
    /\ draws.op = "adjust_volume"
    /\ calls = 1
    /\ \E x \in Rows : \E y \in Cols :
        \/ image[x][y][0] + draws.delta[0] > 255 /\ variant(heap, new_data, 0)[x][y][0] = 255
        \/ image[x][y][0] + draws.delta[0] < 0 /\ variant(heap, new_data, 0)[x][y][0] = 0

(***************************************************************************)
(* C4 (alpha preservation): adjust_volume, amp_freq and amp_time leave the *)
(* A channel of every pixel of every variant as it was before the call.    *)
(***************************************************************************)
C4_AlphaPreserved ==
    [][draws'.op \in {"adjust_volume", "amp_freq", "amp_time"} =>
            \A img \in Imgs : \A x \in Rows : \A y \in Cols :
                variant(heap', new_data', img)[x][y][3] = variant(heap, new_data, img)[x][y][3]
      ]_vars

\* The first call was adjust_volume; it changed the R value of a pixel of
\* variant 0 whose A value is below 255 and is still what the image holds.
C4_Witness ==
    /\ draws.op = "adjust_volume"
    /\ calls = 1
    /\ \E x \in Rows : \E y \in Cols :
        /\ variant(heap, new_data, 0)[x][y][0] # image[x][y][0]
        /\ image[x][y][3] < 255
        /\ variant(heap, new_data, 0)[x][y][3] = image[x][y][3]

(***************************************************************************)
(* C5 (adjust_volume): the call draws one delta in [-50, 49] per variant   *)
(* and sets every R, G and B value v of that variant to                    *)
(* min(255, max(0, v + delta)).                                            *)
(***************************************************************************)
C5_AdjustVolume ==
    [][draws'.op = "adjust_volume" =>
            /\ err' = "none"
            /\ \A img \in Imgs :
                /\ draws'.delta[img] \in -50..49
                /\ \A x \in Rows : \A y \in Cols : \A ch \in 0..2 :
                    variant(heap', new_data', img)[x][y][ch] =
                        Bounded(variant(heap, new_data, img)[x][y][ch], draws'.delta[img])
      ]_vars

\* The scenario: the all-255 4x4x4 image, delta = -50, and variant 0 is 205
\* on R, G and B with A still 255.
C5_Witness ==
    /\ draws.op = "adjust_volume"
    /\ calls = 1
    /\ image = np_full(4, 4, list4(255, 255, 255, 255))
    /\ draws.delta[0] = -50
    /\ variant(heap, new_data, 0) = np_full(4, 4, list4(205, 205, 205, 255))

(***************************************************************************)
(* C6 (combine symmetry): the array combine_arr(A, B) returned equals      *)
(* combine_arr(B, A) element for element.                                  *)
(***************************************************************************)
C6_CombineSymmetric ==
    draws.op = "combine_arr" =>
        LET args == combine_args(heap, draws.img, draws.bg)
        IN  result = combine_arr_result(args[2], args[1])

\* A call whose two arrays differ and whose average was truncated
\* somewhere: the sum of the two values of a cell is odd.
C6_Witness ==
    /\ draws.op = "combine_arr"
    /\ LET args == combine_args(heap, draws.img, draws.bg)
       IN  /\ args[1] # args[2]
           /\ \E x \in Rows : \E y \in Cols : \E ch \in 0..3 :
                2 * result[x][y][ch] + 1 = args[1][x][y][ch] + args[2][x][y][ch]

(***************************************************************************)
(* C7 (the source array is never mutated, no aliasing): og_data always     *)
(* holds the pixels that were loaded, and no variant is the array og_data  *)
(* or the array of another variant.                                        *)
(***************************************************************************)
C7_SourceUntouched ==
    /\ heap[og_data] = image
    /\ \A img \in Imgs : new_data[img] # og_data
    /\ \A i \in Imgs : \A j \in Imgs : i # j => new_data[i] # new_data[j]

\* After a call, two variants that differ from the image and from each
\* other.
C7_Witness ==
    /\ calls >= 1
    /\ iterations = 2
    /\ variant(heap, new_data, 0) # image
    /\ variant(heap, new_data, 1) # image
    /\ variant(heap, new_data, 0) # variant(heap, new_data, 1)
    /\ heap[og_data] = image

(***************************************************************************)
(* C8 (band amplitude): for each variant whose bands, amplitude and loc    *)
(* were drawn, amp_freq (amp_time) adds amplitude, kept within [0, 255],   *)
(* to R, G and B of exactly the pixels whose row (column) index is in      *)
(* [loc, loc + bands), and leaves every other value unchanged.             *)
(***************************************************************************)
BandAdjusted(arr, byRow, d) ==
    [x \in Rows |-> [y \in Cols |-> [ch \in 0..3 |->
        IF ch < 3 /\ (IF byRow THEN x ELSE y) \in d.loc..(d.loc + d.bands - 1)
        THEN Bounded(arr[x][y][ch], d.amplitude)
        ELSE arr[x][y][ch]]]]

C8_BandAdjust ==
    [][draws'.op \in {"amp_freq", "amp_time"} =>
            \A img \in DOMAIN draws'.d :
                variant(heap', new_data', img) =
                    BandAdjusted(variant(heap, new_data, img), draws'.op = "amp_freq", draws'.d[img])
      ]_vars

(***************************************************************************)
(* C9 (no error state): no transformation method raises on a source image  *)
(* of shape [H, W, 4] with H >= 1 and W >= 1.                              *)
(***************************************************************************)
C9_NoError == err = "none"

(***************************************************************************)
(* C10 (time_shift): shift is a multiple of 4 in [0, W); the new variant   *)
(* has the shape of the old one; its element at flattened index i is the   *)
(* element at flattened index (i - shift) mod (H*W*4) of the border-filled *)
(* array; and each of its pixels is, whole, the pixel shift/4 places       *)
(* earlier in the border-filled array's row-major pixel order.             *)
(***************************************************************************)
C10_TimeShift ==
    [][draws'.op = "time_shift" =>
            \A img \in Imgs :
                LET shift == draws'.shift[img]
                    filled == fill_empty_borders(variant(heap, new_data, img))
                    out == variant(heap', new_data', img)
                    n == H * W * 4
                    flat_out == ravel(out)
                    flat_filled == ravel(filled)
                IN  /\ shift % 4 = 0
                    /\ shift \in 0..(W - 1)
                    /\ DOMAIN out = Rows
                    /\ \A x \in Rows : DOMAIN out[x] = Cols
                    /\ \A x \in Rows : \A y \in Cols : DOMAIN out[x][y] = 0..3
                    /\ \A i \in 0..(n - 1) : flat_out[i] = flat_filled[(i - shift) % n]
                    /\ \A x \in Rows : \A y \in Cols :
                        LET q == (x * W + y - shift \div 4) % (H * W)
                        IN  out[x][y] = filled[q \div W][q % W]
      ]_vars

\* The first call was time_shift with shift = 4 on an image of two rows,
\* and the last pixel of row 0 moved to the head of row 1, where another
\* pixel was.
C10_Witness ==
    /\ draws.op = "time_shift"
    /\ calls = 1
    /\ H = 2
    /\ draws.shift[0] = 4
    /\ LET filled == fill_empty_borders(image)
       IN  /\ variant(heap, new_data, 0)[1][0] = filled[0][W - 1]
           /\ filled[1][0] # filled[0][W - 1]

====
